---------------------------- MODULE Spec2Model ----------------------------
(***************************************************************************)
(* Model of the mindtrace server slice:                                    *)
(*   - GET /stats/dashboard        (app/routes/statsRoutes.py)             *)
(*   - the mood-column migration   (migrations/remove_mood_column.py)      *)
(*   - the mood-removal verifier   (verify_mood_removal.py)                *)
(* Each program has its own specification (SpecStats, SpecMigration,       *)
(* SpecVerify); the variables of the other two programs stay at their      *)
(* initial values.                                                         *)
(***************************************************************************)
EXTENDS Integers, Sequences, FiniteSets, Bags, TLC

(* ------------------------------ bounds -------------------------------- *)
\* rows in the relational store, all three tables together
MaxRows == 2
\* clock ticks per UTC calendar day (the code's day has 86400 * 10^6 us)
DayLen == 2

(* ------------------------- values and row types ----------------------- *)
\* SQL NULL of the nullable contact_id column
NULL == 0

\* two users: the caller and somebody else
Users == {1, 2}
\* two contacts, so that distinct and repeated contacts both occur
Contacts == {1, 2}
\* the instants of two consecutive calendar days
Times == 0..(2 * DayLen - 1)

InteractionRows == [user_id : Users, contact_id : Contacts \cup {NULL}, timestamp : Times]
AlertRows == [user_id : Users, read : BOOLEAN]
ReminderRows == [user_id : Users, completed : BOOLEAN, enabled : BOOLEAN]

VARIABLES
  \* ---- dashboard statistics endpoint ----
  interactions,        \* bag of Interaction rows
  alerts,              \* bag of Alert rows
  reminders,           \* bag of Reminder rows
  spc,                 \* position inside get_dashboard_stats
  current_user,        \* id of the authenticated principal (0 before the call)
  now,                 \* datetime.now(timezone.utc)
  today_start,         \* now.replace(hour=0, minute=0, second=0, microsecond=0)
  visitors_today,
  all_interactions_today,
  total_conversations,
  unread_alerts,
  upcoming_reminders,
  returned,            \* << >> or <<the dict returned to the caller>>
  failed_query,        \* "none" or the query whose data access raised
  \* ---- database catalog shared by the two maintenance scripts ----
  catalog,             \* committed information_schema.columns: <<table_name, column_name>>
  \* ---- migrations/remove_mood_column.py ----
  mpc,                 \* position inside the migration script
  response,            \* the answer read by input(), a string of characters
  session,             \* "none", "open" or "closed": the SessionLocal() session
  txn,                 \* << >> or <<catalog as seen by the open transaction>>
  raising,             \* an exception is propagating out of remove_mood_column
  failed_stmt,         \* "none" or the statement that raised in this run
  events,              \* what this run did to the session and printed, in order
  exit_code,           \* -1 while running, else the process exit status
  run,                 \* number of the current run of the script
  run_start_catalog,   \* the catalog when the current run started
  prev_run,            \* "none", or how the previous run ended
  \* ---- verify_mood_removal.py ----
  vpc,                 \* position inside main() and the check it is running
  results,             \* main's list of (check name, passed)
  vsession,            \* "none", "open" or "closed": check_database_schema's session
  all_clean,           \* check_route_definitions' flag
  file_idx,            \* index into files_to_check of the next file
  findings,            \* what the checks printed: FAIL, WARNING and ERROR lines
  raised_in,           \* the checks inside which an exception was raised
  vexit                \* -1 while running, else the exit status of the script

statsVars == <<interactions, alerts, reminders, spc, current_user, now, today_start,
               visitors_today, all_interactions_today, total_conversations,
               unread_alerts, upcoming_reminders, returned, failed_query>>

migVars == <<mpc, response, session, txn, raising, failed_stmt, events, exit_code,
             run, run_start_catalog, prev_run>>

verVars == <<vpc, results, vsession, all_clean, file_idx, findings, raised_in, vexit>>

vars == <<statsVars, catalog, migVars, verVars>>

\* what each program leaves alone
notStats == <<catalog, migVars, verVars>>
notMigration == <<statsVars, verVars>>
notVerify == <<statsVars, catalog, migVars>>

(* --------------------------- query helpers ---------------------------- *)
\* rows of bag B that satisfy the filter, with their multiplicities
Filter(B, matching) == [r \in DOMAIN B \cap matching |-> B[r]]

\* func.count(col) over the rows of B; the counted columns are primary keys
Count(B) == BagCardinality(B)

\* `<scalar> or 0`
OrZero(v) == IF v = 0 THEN 0 ELSE v

StartOfDay(t) == t - (t % DayLen)

VisitorsFilter(r, uid, start) ==
  /\ r.user_id = uid
  /\ r.contact_id # NULL
  /\ r.timestamp >= start

VisitorsQuery(I, uid, start) ==
  LET VF == {r \in DOMAIN I : VisitorsFilter(r, uid, start)}
  IN  OrZero(Cardinality({r.contact_id : r \in BagToSet(Filter(I, VF))}))

AllTodayFilter(r, uid, start) ==
  /\ r.user_id = uid
  /\ r.timestamp >= start

AllTodayQuery(I, uid, start) ==
  LET TF == {r \in DOMAIN I : AllTodayFilter(r, uid, start)}
  IN  Filter(I, TF)

ConversationsFilter(r, uid) == r.user_id = uid

ConversationsQuery(I, uid) ==
  LET CF == {r \in DOMAIN I : ConversationsFilter(r, uid)}
  IN  OrZero(Count(Filter(I, CF)))

\* the unread filter without the user scope
AlertsFilterAllUsers(r, uid) == r.read = FALSE

AlertsFilter(r, uid) ==
  /\ r.user_id = uid
  /\ r.read = FALSE

UnreadAlertsQuery(A, uid) ==
  LET AF == {r \in DOMAIN A : AlertsFilter(r, uid)}
  IN  OrZero(Count(Filter(A, AF)))

\* the reminders filter without the enabled test
RemindersFilterIgnoreEnabled(r, uid) ==
  /\ r.user_id = uid
  /\ r.completed = FALSE

RemindersFilter(r, uid) ==
  /\ r.user_id = uid
  /\ r.completed = FALSE
  /\ r.enabled = TRUE

UpcomingRemindersQuery(R, uid) ==
  LET RF == {r \in DOMAIN R : RemindersFilter(r, uid)}
  IN  OrZero(Count(Filter(R, RF)))

(* ------------------------- the relational store ----------------------- *)
StoredRows == Count(interactions) + Count(alerts) + Count(reminders)

InsertInteraction ==
  /\ spc = "idle"
  /\ StoredRows < MaxRows
  /\ \E r \in InteractionRows : interactions' = interactions (+) SetToBag({r})
  /\ UNCHANGED <<alerts, reminders, spc, current_user, now, today_start,
                 visitors_today, all_interactions_today, total_conversations,
                 unread_alerts, upcoming_reminders, returned, failed_query>>
  /\ UNCHANGED notStats

InsertAlert ==
  /\ spc = "idle"
  /\ StoredRows < MaxRows
  /\ \E r \in AlertRows : alerts' = alerts (+) SetToBag({r})
  /\ UNCHANGED <<interactions, reminders, spc, current_user, now, today_start,
                 visitors_today, all_interactions_today, total_conversations,
                 unread_alerts, upcoming_reminders, returned, failed_query>>
  /\ UNCHANGED notStats

InsertReminder ==
  /\ spc = "idle"
  /\ StoredRows < MaxRows
  /\ \E r \in ReminderRows : reminders' = reminders (+) SetToBag({r})
  /\ UNCHANGED <<interactions, alerts, spc, current_user, now, today_start,
                 visitors_today, all_interactions_today, total_conversations,
                 unread_alerts, upcoming_reminders, returned, failed_query>>
  /\ UNCHANGED notStats

(* ------------------------ get_dashboard_stats ------------------------- *)
QueryPcs == {"visitors", "all_today", "conversations", "alerts", "reminders"}

\* the endpoint is entered for an authenticated user; now and today_start are taken
EnterDashboardStats ==
  /\ spc = "idle"
  /\ \E u \in Users, n \in Times :
        /\ current_user' = u
        /\ now' = n
        /\ today_start' = StartOfDay(n)
  /\ spc' = "visitors"
  /\ UNCHANGED <<interactions, alerts, reminders, visitors_today,
                 all_interactions_today, total_conversations, unread_alerts,
                 upcoming_reminders, returned, failed_query>>
  /\ UNCHANGED notStats

CountVisitorsToday ==
  /\ spc = "visitors"
  /\ visitors_today' = VisitorsQuery(interactions, current_user, today_start)
  /\ spc' = "all_today"
  /\ UNCHANGED <<interactions, alerts, reminders, current_user, now, today_start,
                 all_interactions_today, total_conversations, unread_alerts,
                 upcoming_reminders, returned, failed_query>>
  /\ UNCHANGED notStats

ListInteractionsToday ==
  /\ spc = "all_today"
  /\ all_interactions_today' = AllTodayQuery(interactions, current_user, today_start)
  /\ spc' = "conversations"
  /\ UNCHANGED <<interactions, alerts, reminders, current_user, now, today_start,
                 visitors_today, total_conversations, unread_alerts,
                 upcoming_reminders, returned, failed_query>>
  /\ UNCHANGED notStats

CountConversations ==
  /\ spc = "conversations"
  /\ total_conversations' = ConversationsQuery(interactions, current_user)
  /\ spc' = "alerts"
  /\ UNCHANGED <<interactions, alerts, reminders, current_user, now, today_start,
                 visitors_today, all_interactions_today, unread_alerts,
                 upcoming_reminders, returned, failed_query>>
  /\ UNCHANGED notStats

CountUnreadAlerts ==
  /\ spc = "alerts"
  /\ unread_alerts' = UnreadAlertsQuery(alerts, current_user)
  /\ spc' = "reminders"
  /\ UNCHANGED <<interactions, alerts, reminders, current_user, now, today_start,
                 visitors_today, all_interactions_today, total_conversations,
                 upcoming_reminders, returned, failed_query>>
  /\ UNCHANGED notStats

CountUpcomingReminders ==
  /\ spc = "reminders"
  /\ upcoming_reminders' = UpcomingRemindersQuery(reminders, current_user)
  /\ spc' = "return"
  /\ UNCHANGED <<interactions, alerts, reminders, current_user, now, today_start,
                 visitors_today, all_interactions_today, total_conversations,
                 unread_alerts, returned, failed_query>>
  /\ UNCHANGED notStats

ReturnStats ==
  /\ spc = "return"
  /\ returned' = << [visitors |-> visitors_today,
                     conversations |-> total_conversations,
                     unreadAlerts |-> unread_alerts,
                     upcomingReminders |-> upcoming_reminders] >>
  /\ spc' = "returned"
  /\ UNCHANGED <<interactions, alerts, reminders, current_user, now, today_start,
                 visitors_today, all_interactions_today, total_conversations,
                 unread_alerts, upcoming_reminders, failed_query>>
  /\ UNCHANGED notStats

\* a handler that swallows the exception and returns the counts computed so far
OnQueryErrorPartial(q) ==
  /\ failed_query' = q
  /\ spc' = "returned"
  /\ returned' = << [visitors |-> visitors_today] >>

\* what get_dashboard_stats does with an exception of a query: nothing, there is
\* no try block, so the exception leaves the function and nothing is returned
OnQueryError(q) ==
  /\ failed_query' = q
  /\ spc' = "raised"
  /\ returned' = returned

\* db.query(...) raises (connectivity, malformed query)
QueryRaises ==
  /\ spc \in QueryPcs
  /\ OnQueryError(spc)
  /\ UNCHANGED <<interactions, alerts, reminders, current_user, now, today_start,
                 visitors_today, all_interactions_today, total_conversations,
                 unread_alerts, upcoming_reminders>>
  /\ UNCHANGED notStats

StatsInit ==
  /\ interactions = EmptyBag
  /\ alerts = EmptyBag
  /\ reminders = EmptyBag
  /\ spc = "idle"
  /\ current_user = 0
  /\ now = 0
  /\ today_start = 0
  /\ visitors_today = 0
  /\ all_interactions_today = EmptyBag
  /\ total_conversations = 0
  /\ unread_alerts = 0
  /\ upcoming_reminders = 0
  /\ returned = << >>
  /\ failed_query = "none"

(* ------------------------- the database catalog ---------------------- *)
\* columns that information_schema.columns may list
PossibleColumns == {<<"interactions", "id">>, <<"interactions", "mood">>, <<"users", "mood">>}

CatalogInit == catalog \in {S \in SUBSET PossibleColumns : <<"interactions", "id">> \in S}

\* SELECT column_name FROM information_schema.columns
\*   WHERE table_name='interactions' AND column_name='mood'
SelectMoodColumn(cat) ==
  {c \in cat : c[1] = "interactions" /\ c[2] = "mood"}

\* the existence check skipped: the column is taken to be there
FetchOneAlways(rows) == TRUE

\* result.fetchone(): a row or None, used as a truth value
FetchOne(rows) == rows # {}

\* ALTER TABLE interactions DROP COLUMN mood
DropMoodColumn(cat) == cat \ {<<"interactions", "mood">>}

(* ------------------- migrations/remove_mood_column.py ----------------- *)
Range(seq) == {seq[i] : i \in DOMAIN seq}

\* runs of the migration script
MaxRuns == 2
\* length of the answer typed at the prompt
MaxAnswerLen == 3

AnswerChars == {"y", "Y", "e", "E", "s", "S", "n", "o"}

Answers == UNION {[1..n -> AnswerChars] : n \in 0..MaxAnswerLen}

LowerChar(c) ==
  CASE c = "Y" -> "y"
    [] c = "E" -> "e"
    [] c = "S" -> "s"
    [] OTHER -> c

\* str.lower()
Lower(str) == [i \in DOMAIN str |-> LowerChar(str[i])]

\* anything but a 'no' taken as consent
IsAffirmativeUnlessNo(resp) == Lower(resp) \notin {<<"n", "o">>, <<"n">>}

\* response.lower() in ['yes', 'y']
IsAffirmative(resp) == Lower(resp) \in {<<"y", "e", "s">>, <<"y">>}

\* the catalog the session reads: its transaction's view, else the committed one
SessionView == IF txn = << >> THEN catalog ELSE txn[1]

MigInit ==
  /\ mpc = "prompt"
  /\ response = << >>
  /\ session = "none"
  /\ txn = << >>
  /\ raising = FALSE
  /\ failed_stmt = "none"
  /\ events = << >>
  /\ exit_code = -1
  /\ run = 1
  /\ run_start_catalog = catalog
  /\ prev_run = "none"

\* banner and input(...)
Prompt ==
  /\ mpc = "prompt"
  /\ \E a \in Answers : response' = a
  /\ mpc' = "decide"
  /\ UNCHANGED <<catalog, session, txn, raising, failed_stmt, events, exit_code,
                 run, run_start_catalog, prev_run>>
  /\ UNCHANGED notMigration

\* if response.lower() in ['yes', 'y']: remove_mood_column() ...
Confirmed ==
  /\ mpc = "decide"
  /\ IsAffirmative(response)
  /\ events' = Append(events, "call")
  /\ mpc' = "session"
  /\ UNCHANGED <<catalog, response, session, txn, raising, failed_stmt, exit_code,
                 run, run_start_catalog, prev_run>>
  /\ UNCHANGED notMigration

\* else: print("Migration cancelled"), and the script ends
Cancelled ==
  /\ mpc = "decide"
  /\ ~IsAffirmative(response)
  /\ events' = Append(events, "print_cancelled")
  /\ exit_code' = 0
  /\ mpc' = "exited"
  /\ UNCHANGED <<catalog, response, session, txn, raising, failed_stmt,
                 run, run_start_catalog, prev_run>>
  /\ UNCHANGED notMigration

\* db = SessionLocal()
OpenSession ==
  /\ mpc = "session"
  /\ session' = "open"
  /\ mpc' = "select"
  /\ UNCHANGED <<catalog, response, txn, raising, failed_stmt, events, exit_code,
                 run, run_start_catalog, prev_run>>
  /\ UNCHANGED notMigration

\* result = db.execute(SELECT ...); if result.fetchone(): ... else: print(...)
\* the first execute begins the session's transaction
ExecuteSelect ==
  /\ mpc = "select"
  /\ txn' = <<catalog>>
  /\ IF FetchOne(SelectMoodColumn(catalog))
        THEN /\ mpc' = "drop"
             /\ events' = Append(events, "select")
        ELSE /\ mpc' = "finally"
             /\ events' = events \o <<"select", "print_absent">>
  /\ UNCHANGED <<catalog, response, session, raising, failed_stmt, exit_code,
                 run, run_start_catalog, prev_run>>
  /\ UNCHANGED notMigration

\* db.execute(ALTER TABLE interactions DROP COLUMN mood), inside the transaction
ExecuteDrop ==
  /\ mpc = "drop"
  /\ txn' = <<DropMoodColumn(SessionView)>>
  /\ events' = Append(events, "ddl")
  /\ mpc' = "commit"
  /\ UNCHANGED <<catalog, response, session, raising, failed_stmt, exit_code,
                 run, run_start_catalog, prev_run>>
  /\ UNCHANGED notMigration

\* db.commit(); print("Successfully removed mood column ...")
Commit ==
  /\ mpc = "commit"
  /\ catalog' = SessionView
  /\ txn' = << >>
  /\ events' = events \o <<"commit", "print_removed">>
  /\ mpc' = "finally"
  /\ UNCHANGED <<response, session, raising, failed_stmt, exit_code,
                 run, run_start_catalog, prev_run>>
  /\ UNCHANGED notMigration

\* db.execute(...) or db.commit() raises
StatementRaises ==
  /\ mpc \in {"select", "drop", "commit"}
  /\ failed_stmt' = mpc
  /\ mpc' = "except"
  /\ UNCHANGED <<catalog, response, session, txn, raising, events, exit_code,
                 run, run_start_catalog, prev_run>>
  /\ UNCHANGED notMigration

\* the handler without its raise: the error is logged and swallowed
ExceptHandlerSwallow ==
  /\ mpc = "except"
  /\ txn' = << >>
  /\ raising' = FALSE
  /\ events' = events \o <<"print_error", "rollback">>
  /\ mpc' = "finally"
  /\ UNCHANGED <<catalog, response, session, failed_stmt, exit_code,
                 run, run_start_catalog, prev_run>>
  /\ UNCHANGED notMigration

\* except Exception as e: print(...); db.rollback(); raise
ExceptHandler ==
  /\ mpc = "except"
  /\ txn' = << >>
  /\ raising' = TRUE
  /\ events' = events \o <<"print_error", "rollback", "raise">>
  /\ mpc' = "finally"
  /\ UNCHANGED <<catalog, response, session, failed_stmt, exit_code,
                 run, run_start_catalog, prev_run>>
  /\ UNCHANGED notMigration

\* finally: db.close(); then the exception, if any, leaves remove_mood_column and
\* ends the script with a traceback, else the caller goes on
Finally ==
  /\ mpc = "finally"
  /\ session' = "closed"
  /\ txn' = << >>
  /\ IF raising
        THEN /\ events' = Append(events, "close")
             /\ exit_code' = 1
             /\ mpc' = "exited"
        ELSE /\ events' = Append(events, "close")
             /\ exit_code' = exit_code
             /\ mpc' = "completed"
  /\ UNCHANGED <<catalog, response, raising, failed_stmt,
                 run, run_start_catalog, prev_run>>
  /\ UNCHANGED notMigration

\* print("Migration completed successfully!"), and the script ends
PrintCompleted ==
  /\ mpc = "completed"
  /\ events' = Append(events, "print_completed")
  /\ exit_code' = 0
  /\ mpc' = "exited"
  /\ UNCHANGED <<catalog, response, session, txn, raising, failed_stmt,
                 run, run_start_catalog, prev_run>>
  /\ UNCHANGED notMigration

\* how a finished run ended
RunOutcome ==
  IF exit_code # 0 THEN "failed"
  ELSE IF "ddl" \in Range(events) THEN "dropped"
  ELSE IF "call" \in Range(events) THEN "noop"
  ELSE "cancelled"

\* the operator starts the script again
RunAgain ==
  /\ mpc = "exited"
  /\ run < MaxRuns
  /\ prev_run' = RunOutcome
  /\ run' = run + 1
  /\ run_start_catalog' = catalog
  /\ mpc' = "prompt"
  /\ response' = << >>
  /\ session' = "none"
  /\ txn' = << >>
  /\ raising' = FALSE
  /\ failed_stmt' = "none"
  /\ events' = << >>
  /\ exit_code' = -1
  /\ UNCHANGED catalog
  /\ UNCHANGED notMigration

(* ------------------------ verify_mood_removal.py ---------------------- *)
\* entries in the sample read from the document store (the code asks for limit=5)
MaxSample == 2
\* lines of a scanned source file
MaxLines == 1

files_to_check == <<"app/routes/interactionRoutes.py", "app/routes/asrRoutes.py",
                    "app/routes/searchRoutes.py", "ai_engine/asr/conversation_store.py">>

\* a metadata entry of the document store: its set of keys, or None
NoneMetadata == {"<None>"}
Metadatas == {{"topic"}, {"mood", "topic"}, NoneMetadata}
ChromaSamples == UNION {[1..n -> Metadatas] : n \in 0..MaxSample}

\* for metadata in results['metadatas']: if 'mood' in metadata: has_mood = True; break
\* ('mood' in None raises TypeError)
RECURSIVE ScanMetadatas(_)
ScanMetadatas(metas) ==
  IF metas = << >> THEN "clean"
  ELSE IF Head(metas) = NoneMetadata THEN "error"
  ELSE IF "mood" \in Head(metas) THEN "has_mood"
  ELSE ScanMetadatas(Tail(metas))

\* a source line is a string of tokens
Tokens == {"#", " ", "x", "mood", "\"mood\"", "'mood'", "\"Mood\""}
Lines ==
  { << >>,
    <<"x">>,
    <<"mood">>,
    <<"x", "\"mood\"">>,
    <<"'mood'", " ">>,
    <<"\"Mood\"">>,
    <<"#", "\"mood\"">>,
    <<" ", "#", " ", "'mood'">>,
    <<"x", "#", "\"mood\"">> }
FileContents == UNION {[1..n -> Lines] : n \in 0..MaxLines}

LowerToken(t) == IF t = "\"Mood\"" THEN "\"mood\"" ELSE t

\* 'mood' in line.lower()
ContainsMoodLower(line) ==
  \E i \in DOMAIN line : LowerToken(line[i]) \in {"mood", "\"mood\"", "'mood'"}

\* line.strip()
RECURSIVE LStrip(_)
LStrip(line) ==
  IF line # << >> /\ Head(line) = " " THEN LStrip(Tail(line)) ELSE line

RECURSIVE RStrip(_)
RStrip(line) ==
  IF line # << >> /\ line[Len(line)] = " " THEN RStrip(SubSeq(line, 1, Len(line) - 1))
  ELSE line

Strip(line) == RStrip(LStrip(line))

\* line.strip().startswith('#')
IsComment(line) == Strip(line) # << >> /\ Head(Strip(line)) = "#"

\* '"mood"' in line or "'mood'" in line
HasQuotedMood(line) ==
  \E i \in DOMAIN line : line[i] \in {"\"mood\"", "'mood'"}

\* the numbers of the lines appended to mood_refs
MoodRefs(content) ==
  {i \in DOMAIN content :
     /\ ContainsMoodLower(content[i])
     /\ ~IsComment(content[i])
     /\ HasQuotedMood(content[i])}

\* the two branches of the schema check swapped to a constant PASS
SchemaVerdictAlwaysPass(found) == TRUE

\* check_database_schema's verdict from the truth value of result.fetchone()
SchemaVerdict(found) == ~found

\* all(result[1] for result in results)
AllPassed(res) == \A i \in DOMAIN res : res[i][2]

VerInit ==
  /\ vpc = "schema_session"
  /\ results = << >>
  /\ vsession = "none"
  /\ all_clean = TRUE
  /\ file_idx = 1
  /\ findings = {}
  /\ raised_in = {}
  /\ vexit = -1

\* check_database_schema: db = SessionLocal()
SchemaSession ==
  /\ vpc = "schema_session"
  /\ vsession' = "open"
  /\ vpc' = "schema_query"
  /\ UNCHANGED <<results, all_clean, file_idx, findings, raised_in, vexit>>
  /\ UNCHANGED notVerify

\* SessionLocal() raises: the call is before the try block, so the exception leaves
\* check_database_schema and main(), and the script dies with a traceback
SchemaSessionRaises ==
  /\ vpc = "schema_session"
  /\ raised_in' = raised_in \cup {"Database Schema"}
  /\ vpc' = "aborted"
  /\ vexit' = 1
  /\ UNCHANGED <<results, vsession, all_clean, file_idx, findings>>
  /\ UNCHANGED notVerify

\* try: result = db.execute(...); if result.fetchone(): FAIL else PASS; finally close
SchemaQuery ==
  /\ vpc = "schema_query"
  /\ LET found == FetchOne(SelectMoodColumn(catalog))
     IN  /\ results' = Append(results, <<"Database Schema", SchemaVerdict(found)>>)
         /\ findings' = IF found THEN findings \cup {"schema_fail"} ELSE findings
  /\ vsession' = "closed"
  /\ vpc' = "chroma_collection"
  /\ UNCHANGED <<all_clean, file_idx, raised_in, vexit>>
  /\ UNCHANGED notVerify

\* except Exception: print ERROR; return False; finally close
SchemaQueryRaises ==
  /\ vpc = "schema_query"
  /\ raised_in' = raised_in \cup {"Database Schema"}
  /\ findings' = findings \cup {"schema_error"}
  /\ results' = Append(results, <<"Database Schema", FALSE>>)
  /\ vsession' = "closed"
  /\ vpc' = "chroma_collection"
  /\ UNCHANGED <<all_clean, file_idx, vexit>>
  /\ UNCHANGED notVerify

\* check_chromadb_metadata: collection = get_conversation_collection()
ChromaCollection ==
  /\ vpc = "chroma_collection"
  /\ vpc' = "chroma_get"
  /\ UNCHANGED <<results, vsession, all_clean, file_idx, findings, raised_in, vexit>>
  /\ UNCHANGED notVerify

\* results = collection.get(limit=5) and the scan of results['metadatas']
ChromaGet ==
  /\ vpc = "chroma_get"
  /\ \E sample \in ChromaSamples :
       LET scan == ScanMetadatas(sample)
       IN  IF sample = << >>
             THEN /\ findings' = findings \cup {"chroma_empty"}
                  /\ results' = Append(results, <<"ChromaDB Metadata", TRUE>>)
                  /\ raised_in' = raised_in
           ELSE IF scan = "error"
             THEN /\ findings' = findings \cup {"chroma_error"}
                  /\ results' = Append(results, <<"ChromaDB Metadata", FALSE>>)
                  /\ raised_in' = raised_in \cup {"ChromaDB Metadata"}
           ELSE IF scan = "has_mood"
             THEN /\ findings' = findings \cup {"chroma_warn"}
                  /\ results' = Append(results, <<"ChromaDB Metadata", TRUE>>)
                  /\ raised_in' = raised_in
           ELSE /\ findings' = findings
                /\ results' = Append(results, <<"ChromaDB Metadata", TRUE>>)
                /\ raised_in' = raised_in
  /\ vpc' = "model"
  /\ UNCHANGED <<vsession, all_clean, file_idx, vexit>>
  /\ UNCHANGED notVerify

\* get_conversation_collection() or collection.get() raises: ERROR, return False
ChromaRaises ==
  /\ vpc \in {"chroma_collection", "chroma_get"}
  /\ raised_in' = raised_in \cup {"ChromaDB Metadata"}
  /\ findings' = findings \cup {"chroma_error"}
  /\ results' = Append(results, <<"ChromaDB Metadata", FALSE>>)
  /\ vpc' = "model"
  /\ UNCHANGED <<vsession, all_clean, file_idx, vexit>>
  /\ UNCHANGED notVerify

\* check_model_definition: hasattr(Interaction, 'mood')
ModelDefinition ==
  /\ vpc = "model"
  /\ \E has_mood \in BOOLEAN :
       /\ results' = Append(results, <<"Model Definition", ~has_mood>>)
       /\ findings' = IF has_mood THEN findings \cup {"model_fail"} ELSE findings
  /\ vpc' = "routes"
  /\ UNCHANGED <<vsession, all_clean, file_idx, raised_in, vexit>>
  /\ UNCHANGED notVerify

\* from app.models import Interaction raises: ERROR, return False
ModelImportRaises ==
  /\ vpc = "model"
  /\ raised_in' = raised_in \cup {"Model Definition"}
  /\ findings' = findings \cup {"model_error"}
  /\ results' = Append(results, <<"Model Definition", FALSE>>)
  /\ vpc' = "routes"
  /\ UNCHANGED <<vsession, all_clean, file_idx, vexit>>
  /\ UNCHANGED notVerify

\* check_route_definitions, one iteration of the loop: the file is read and scanned
RouteFile ==
  /\ vpc = "routes"
  /\ file_idx <= Len(files_to_check)
  /\ \E content \in FileContents :
       IF MoodRefs(content) # {}
         THEN /\ findings' = findings \cup {"text_warn"}
              /\ all_clean' = FALSE
         ELSE /\ findings' = findings
              /\ all_clean' = all_clean
  /\ file_idx' = file_idx + 1
  /\ UNCHANGED <<vpc, results, vsession, raised_in, vexit>>
  /\ UNCHANGED notVerify

\* open() or read() raises: ERROR checking the file, all_clean = False
RouteFileRaises ==
  /\ vpc = "routes"
  /\ file_idx <= Len(files_to_check)
  /\ raised_in' = raised_in \cup {"Route Definitions"}
  /\ findings' = findings \cup {"text_error"}
  /\ all_clean' = FALSE
  /\ file_idx' = file_idx + 1
  /\ UNCHANGED <<vpc, results, vsession, vexit>>
  /\ UNCHANGED notVerify

\* the loop is over: return all_clean
RoutesReturn ==
  /\ vpc = "routes"
  /\ file_idx > Len(files_to_check)
  /\ results' = Append(results, <<"Route Definitions", all_clean>>)
  /\ vpc' = "summary"
  /\ UNCHANGED <<vsession, all_clean, file_idx, findings, raised_in, vexit>>
  /\ UNCHANGED notVerify

\* the summary and return 0 if all_passed else 1
Summary ==
  /\ vpc = "summary"
  /\ vexit' = IF AllPassed(results) THEN 0 ELSE 1
  /\ vpc' = "returned"
  /\ UNCHANGED <<results, vsession, all_clean, file_idx, findings, raised_in>>
  /\ UNCHANGED notVerify

InitVerify == StatsInit /\ CatalogInit /\ MigInit /\ VerInit

NextVerify ==
  \/ SchemaSession
  \/ SchemaSessionRaises
  \/ SchemaQuery
  \/ SchemaQueryRaises
  \/ ChromaCollection
  \/ ChromaGet
  \/ ChromaRaises
  \/ ModelDefinition
  \/ ModelImportRaises
  \/ RouteFile
  \/ RouteFileRaises
  \/ RoutesReturn
  \/ Summary

SpecVerify == InitVerify /\ [][NextVerify]_vars

InitMigration == StatsInit /\ CatalogInit /\ MigInit /\ VerInit

NextMigration ==
  \/ Prompt
  \/ Confirmed
  \/ Cancelled
  \/ OpenSession
  \/ ExecuteSelect
  \/ ExecuteDrop
  \/ Commit
  \/ StatementRaises
  \/ ExceptHandler
  \/ Finally
  \/ PrintCompleted
  \/ RunAgain

SpecMigration == InitMigration /\ [][NextMigration]_vars

NextStats ==
  \/ InsertInteraction
  \/ InsertAlert
  \/ InsertReminder
  \/ EnterDashboardStats
  \/ CountVisitorsToday
  \/ ListInteractionsToday
  \/ CountConversations
  \/ CountUnreadAlerts
  \/ CountUpcomingReminders
  \/ ReturnStats
  \/ QueryRaises

\* the endpoint never reads the catalog; the scripts are not running
InitStats == StatsInit /\ catalog = {<<"interactions", "id">>} /\ MigInit /\ VerInit

SpecStats == InitStats /\ [][NextStats]_vars

(* ------------------- properties of the dashboard endpoint ------------- *)
Responded == Len(returned) = 1

\* distinct non-null contacts of user u with a timestamp in the closed window [lo, hi]
ContactsInWindow(u, lo, hi) ==
  {c \in Contacts : \E r \in BagToSet(interactions) :
      /\ r.user_id = u
      /\ r.contact_id = c
      /\ lo <= r.timestamp
      /\ r.timestamp <= hi}

\* C1: the returned `visitors` is the number of distinct non-null contact ids among
\* the caller's interactions with today_start <= timestamp <= now (both ends
\* inclusive); an interaction stamped after now is never counted.
C1_VisitorsClosedWindow ==
  Responded =>
    returned[1].visitors = Cardinality(ContactsInWindow(current_user, StartOfDay(now), now))

\* the caller's own rows of a table
OwnRows(B, u) == [r \in {x \in DOMAIN B : x.user_id = u} |-> B[r]]

\* C2: cross-user isolation: the four returned values are the ones the same call
\* yields on the store with every row of the other users removed, and a caller
\* without alerts gets unreadAlerts = 0 whatever alerts the other users have.
C2_CrossUserIsolation ==
  Responded =>
    /\ returned[1] =
         [visitors |-> VisitorsQuery(OwnRows(interactions, current_user), current_user, StartOfDay(now)),
          conversations |-> ConversationsQuery(OwnRows(interactions, current_user), current_user),
          unreadAlerts |-> UnreadAlertsQuery(OwnRows(alerts, current_user), current_user),
          upcomingReminders |-> UpcomingRemindersQuery(OwnRows(reminders, current_user), current_user)]
    /\ OwnRows(alerts, current_user) = EmptyBag => returned[1].unreadAlerts = 0

\* the caller has no alert and no reminder, another user has an unread alert and an
\* upcoming reminder and an interaction, and the response shows none of them
C2_Witness ==
  /\ Responded
  /\ OwnRows(alerts, current_user) = EmptyBag
  /\ \E r \in BagToSet(alerts) : r.user_id # current_user /\ r.read = FALSE
  /\ returned[1].unreadAlerts = 0

\* number of rows of bag B, duplicates included, that satisfy P
RowsMatching(B, S) ==
  LET Sum[T \in SUBSET S] == IF T = {} THEN 0
                             ELSE LET x == CHOOSE y \in T : TRUE
                                  IN  B[x] + Sum[T \ {x}]
  IN  Sum[S]

StatsFields == {"visitors", "conversations", "unreadAlerts", "upcomingReminders"}

\* C4: no partial result: once a query has failed nothing is returned and the
\* failure has left the function; a returned record has all four fields, each a
\* non-negative integer.
C4_NoPartialResult ==
  /\ failed_query # "none" => spc = "raised" /\ ~Responded
  /\ Responded =>
       /\ failed_query = "none"
       /\ DOMAIN returned[1] = StatsFields
       /\ \A f \in StatsFields : returned[1][f] \in Nat

\* a late query (the reminders count) failed after the earlier counts were computed
C4_Witness ==
  /\ failed_query = "reminders"
  /\ spc = "raised"
  /\ total_conversations > 0

(* ---------------------- properties of the migration ------------------- *)
\* the answers that are 'yes' or 'y' up to letter case
AffirmativeAnswers ==
  {a \in Answers :
     \/ Len(a) = 1 /\ a[1] \in {"y", "Y"}
     \/ Len(a) = 3 /\ a[1] \in {"y", "Y"} /\ a[2] \in {"e", "E"} /\ a[3] \in {"s", "S"}}

\* C8: the schema is mutated (and remove_mood_column is called) only after the
\* prompt was answered 'yes' or 'y' in any letter case; on every other answer
\* remove_mood_column is not called, the schema is unchanged and the script ends
\* normally with exit status 0.
C8_ConfirmationBeforeMutation ==
  /\ ("call" \in Range(events) \/ "ddl" \in Range(events) \/ catalog # run_start_catalog)
       => response \in AffirmativeAnswers
  /\ (mpc = "exited" /\ response \notin AffirmativeAnswers)
       => /\ events = <<"print_cancelled">>
          /\ catalog = run_start_catalog
          /\ session = "none"
          /\ ~raising
          /\ exit_code = 0

\* the column exists, the prompt got a near miss of 'yes', and the script has ended
C8_Witness ==
  /\ mpc = "exited"
  /\ response = <<"Y", "e">>
  /\ <<"interactions", "mood">> \in catalog
  /\ exit_code = 0

MoodPresent(cat) == <<"interactions", "mood">> \in cat

\* C9: on a schema without the mood column remove_mood_column executes no DDL and
\* leaves the schema unchanged, and, when no statement raises, completes
\* successfully; a confirmed run after a confirmed run that dropped the column
\* leaves the schema as the first run left it and succeeds.
C9_NoOpWhenAbsent ==
  /\ ~MoodPresent(run_start_catalog)
       => /\ "ddl" \notin Range(events)
          /\ catalog = run_start_catalog
          /\ (mpc = "exited" /\ "call" \in Range(events) /\ failed_stmt = "none")
               => /\ events = <<"call", "select", "print_absent", "close", "print_completed">>
                  /\ ~raising
                  /\ exit_code = 0
  /\ (run > 1 /\ prev_run \in {"dropped", "noop"})
       => /\ ~MoodPresent(run_start_catalog)
          /\ catalog = run_start_catalog

\* the second of two confirmed runs has ended after the first dropped the column
C9_Witness ==
  /\ run = 2
  /\ prev_run = "dropped"
  /\ mpc = "exited"
  /\ "call" \in Range(events)
  /\ exit_code = 0
  /\ catalog = run_start_catalog

\* C10: when the existence check, the DROP COLUMN or the commit raises, the
\* transaction is rolled back, then the error is re-raised, the session is closed,
\* no statement is executed again, the completion message is never printed, and
\* the schema is the one the run started with.
C10_RollbackAndReraise ==
  failed_stmt # "none" =>
    /\ catalog = run_start_catalog
    /\ "print_completed" \notin Range(events)
    /\ mpc \in {"except", "finally", "exited"}
    /\ mpc = "exited" =>
         /\ exit_code = 1
         /\ raising
         /\ session = "closed"
         /\ txn = << >>
         /\ Len(events) >= 4
         /\ SubSeq(events, Len(events) - 3, Len(events))
              = <<"print_error", "rollback", "raise", "close">>
         /\ \A i, j \in DOMAIN events : i # j => events[i] # events[j]

\* the commit of the DROP COLUMN raised and the script has ended
C10_Witness ==
  /\ failed_stmt = "commit"
  /\ mpc = "exited"
  /\ MoodPresent(catalog)
  /\ "ddl" \in Range(events)

(* ----------------- properties of the verification utility ------------- *)
Warnings == {"chroma_warn", "text_warn"}

\* C5: a warning never changes the verdict: when main() has returned and the only
\* findings are warnings (the forbidden metadata key in the document store, the
\* forbidden token in a listed source file), the exit code is 0.
C5_WarningsKeepVerdict ==
  (vpc = "returned" /\ findings \subseteq Warnings) => vexit = 0

\* C6: every check is isolated: an exception raised inside a check, the
\* acquisition of its session or collection included, is reported as an error of
\* that check, and main() is not aborted by it.
C6_ChecksIsolated ==
  /\ vpc # "aborted"
  /\ \A i \in DOMAIN results : results[i][1] \in raised_in => results[i][2] = FALSE
  /\ vpc = "returned" => Len(results) = 4

\* C7: when interactions.mood is still in the schema, check_database_schema
\* returns false and main() returns exit code 1, whatever the other checks find.
C7_ColumnPresentFails ==
  MoodPresent(catalog) =>
    /\ Len(results) >= 1 => results[1] = <<"Database Schema", FALSE>>
    /\ vpc = "returned" => vexit = 1

\* the column exists, the schema query ran without error, the three other checks
\* passed, and main() has returned
C7_Witness ==
  /\ MoodPresent(catalog)
  /\ vpc = "returned"
  /\ findings = {"schema_fail"}
  /\ raised_in = {}
  /\ \A i \in 2..4 : results[i][2] = TRUE
  /\ vexit = 1

=============================================================================
